---- MODULE Spec2Model ----
(***************************************************************************)
(* Fuel-moisture and fire-behaviour functions of the Fire Weather          *)
(* Dashboard:                                                              *)
(*   src/fuel-moisture-integration.js  computeEMC, stepMoisture, runModel, *)
(*                                     calculateDryingPattern              *)
(*   src/unnamed/part_000              FuelMoistureCalc.computeEMC and     *)
(*                                     FuelMoistureCalc.stepMoisture       *)
(*   src/fire-behavior.js              FUEL_MODELS, calculateRateOfSpread, *)
(*                                     calculateFlameLength,               *)
(*                                     calculateFirelineIntensity,         *)
(*                                     predictFireBehavior                 *)
(*                                                                         *)
(* A behaviour starts with one call: Init draws the function and its       *)
(* arguments, the actions execute it (the two loops one iteration per      *)
(* step) and leave the outcome in ret.  The fuel-moisture functions keep   *)
(* nothing between calls.  The functions of src/fire-behavior.js read the  *)
(* module's table FUEL_MODELS (the variable fuelModels), so after one of   *)
(* them has returned the caller may call another one.                      *)
(*                                                                         *)
(* Numbers.  A JavaScript value is a record [t, nan, v]: t is its typeof,  *)
(* nan marks NaN, v is the number in fixed point.  Units of v:             *)
(*   moisture and EMC   1/MU percent (MU = 10^5: the EMC polynomials are   *)
(*                      exact on whole degrees and whole percent)          *)
(*   hours, durations   1/HU hour (HU = 960: one-decimal rounding is exact, *)
(*                      and duration/24 is exact on a 1/40 h grid)         *)
(*   tempF, rh, timeLag whole units                                        *)
(* Math.exp is evaluated to EU = 10^6 (ExpNeg, ExpPos); products are       *)
(* truncated toward zero.  IEEE doubles carry more digits, so the inputs   *)
(* are kept on grids where the six digits decide every comparison the      *)
(* same way the doubles do (t/tau <= 10, or so large that the double       *)
(* itself is absorbed: Math.exp(-1000) is 0).  The rates of spread, flame  *)
(* lengths and intensities are decimal floating point numbers of seven     *)
(* digits (DF), of which the leading four or five agree with the doubles.  *)
(* The moisture damping polynomial cancels near the moisture of            *)
(* extinction, so it is evaluated to sixteen decimals (HP, four limbs of   *)
(* four digits after the point) before it becomes a DF; a moisture between *)
(* two multiples of 1/MU percent is a Fine number, whose frac holds the    *)
(* sixteen decimals below v.                                               *)
(***************************************************************************)
EXTENDS Integers, Sequences, FiniteSets, TLC

VARIABLES pc, call, ret, results, currentMoisture, cumulativeHours, emc, hour,
          fuelModels, callsMade

vars == <<pc, call, ret, results, currentMoisture, cumulativeHours, emc, hour,
          fuelModels, callsMade>>

----------------------------------------------------------------------------
(* Units *)
MU == 10^5
HU == 24 * 40
EU == 10^6

Max(a, b) == IF a >= b THEN a ELSE b
Min(a, b) == IF a <= b THEN a ELSE b
Abs(a) == IF a >= 0 THEN a ELSE -a

(* JavaScript values *)
Num(x) == [t |-> "number", nan |-> FALSE, v |-> x]
NaN == [t |-> "number", nan |-> TRUE, v |-> 0]
Str == [t |-> "string", nan |-> FALSE, v |-> 0]
Undefined == [t |-> "undefined", nan |-> FALSE, v |-> 0]
Null == [t |-> "object", nan |-> FALSE, v |-> 0]

IsNumber(x) == x.t = "number"

(* Math.round(x * 10) / 10 on a value in units of 1/unit: half rounds up *)
Round1(x, unit) == ((x + unit \div 20) \div (unit \div 10)) * (unit \div 10)

RoundNum1(x) == IF x.nan THEN NaN ELSE Num(Round1(x.v, MU))

(* Outcome of a call *)
Return(x) == [st |-> "return", msg |-> "", val |-> x, list |-> <<>>, emc |-> Undefined]
Throw(m) == [st |-> "throw", msg |-> m, val |-> Undefined, list |-> <<>>, emc |-> Undefined]
NoRet == [st |-> "none", msg |-> "", val |-> Undefined, list |-> <<>>, emc |-> Undefined]

----------------------------------------------------------------------------
(* computeEMC, src/fuel-moisture-integration.js *)

MinEMC == MU \div 10
MaxEMC == 40 * MU

(* the three humidity branches, lines 26-38, in units of 1/MU percent *)
EMCBranch(tempF, rh) ==
    IF rh <= 10
      THEN Max(MinEMC, 3000 + 26260 * rh - 104 * rh * tempF)
      ELSE IF rh <= 50
        THEN 150000 + 15000 * rh - 100 * tempF
        ELSE 600000 + 25000 * (rh - 50) + 200 * (100 - tempF)

computeEMC_NoClamp(tempF, rh) ==
    IF ~IsNumber(tempF) \/ ~IsNumber(rh)
      THEN Throw("Invalid input: temperature and humidity must be numbers")
      ELSE IF rh.v < 0 \/ rh.v > 100
        THEN Throw("Relative humidity must be between 0 and 100")
        ELSE Return(Num(EMCBranch(tempF.v, rh.v)))

computeEMC(tempF, rh) ==
    IF ~IsNumber(tempF) \/ ~IsNumber(rh)
      THEN Throw("Invalid input: temperature and humidity must be numbers")
      ELSE IF rh.v < 0 \/ rh.v > 100
        THEN Throw("Relative humidity must be between 0 and 100")
        ELSE Return(Num(Max(MinEMC, Min(MaxEMC, EMCBranch(tempF.v, rh.v)))))

----------------------------------------------------------------------------
(* FuelMoistureCalc.computeEMC, src/unnamed/part_000 *)

(* Number.prototype.toFixed(2) followed by parseFloat, on 1/EU units,      *)
(* giving 1/MU units                                                       *)
ToFixed2(x) == ((x + (EU \div 200)) \div (EU \div 100)) * (MU \div 100)

(* lines 45-54, in units of 1/EU percent *)
LibEMCBranch(temperature, humidity) ==
    IF humidity < 10
      THEN 30000 + 262600 * humidity + 1040 * temperature
      ELSE IF humidity <= 50
        THEN 2220000 + 160000 * humidity + 14000 * temperature
        ELSE 21060000 - 494400 * humidity + 5565 * humidity * humidity
             + 630 * temperature

libComputeEMC(temperature, humidity) ==
    IF ~IsNumber(temperature) \/ ~IsNumber(humidity)
      THEN Throw("Invalid input: temperature and humidity must be numbers")
      ELSE IF humidity.v < 0 \/ humidity.v > 100
        THEN Throw("Humidity must be between 0 and 100")
        ELSE Return(Num(ToFixed2(
               Max(1 * EU, Min(35 * EU, LibEMCBranch(temperature.v, humidity.v))))))

----------------------------------------------------------------------------
(* Math.exp to six decimals *)

(* floor(a * b / c) without leaving 32 bits, for 0 <= a <= 10^6,           *)
(* 0 <= b < c <= 10^6                                                      *)
MulDiv(a, b, c) ==
    LET x == (a \div 1000) * b
        y == (a % 1000) * b
    IN  (x \div c) * 1000 + ((x % c) * 1000 + y) \div c

(* floor(a * b / 10^6), for 0 <= a, 0 <= b *)
MulEU(a, b) ==
    LET ah == a \div 1000
        al == a % 1000
        bh == b \div 1000
        bl == b % 1000
    IN  ah * bh + (ah * bl + al * bh + (al * bl) \div 1000) \div 1000

(* Math.exp(-n) and Math.exp(n) for whole n >= 1, in units of 1/EU *)
ExpNegTable ==
    <<367879, 135335, 49787, 18316, 6738, 2479, 912, 335, 123, 45, 17, 6, 2, 1>>
ExpPosTable == <<2718282, 7389056, 20085537, 54598150, 148413159>>

ExpNegInt(n) ==
    IF n = 0 THEN EU ELSE IF n <= Len(ExpNegTable) THEN ExpNegTable[n] ELSE 0
ExpPosInt(n) == IF n = 0 THEN EU ELSE ExpPosTable[n]

(* the terms (r/q)^i / i! of the exponential series, 0 <= r < q, from term *)
(* i on: their alternating sum (sign = -1) or their sum (sign = 1)         *)
RECURSIVE Series(_, _, _, _, _)
Series(term, i, r, q, sign) ==
    IF term = 0 THEN 0
    ELSE term + sign * Series(MulDiv(term, r, q) \div (i + 1), i + 1, r, q, sign)

(* Math.exp(-p/q) and Math.exp(p/q) for p >= 0, q > 0, in units of 1/EU *)
ExpNeg(p, q) == MulEU(ExpNegInt(p \div q), Series(EU, 0, p % q, q, -1))
ExpPos(p, q) == MulEU(ExpPosInt(p \div q), Series(EU, 0, p % q, q, 1))

(* k = hours * timeLag *)
ExpMinusK_Product(hours, timeLag) ==
    IF timeLag > 0 THEN Num(ExpNeg(hours * timeLag, HU)) ELSE Num(0)

(* 1 - k, the first two terms of the series of Math.exp(-k), not below 0 *)
ExpMinusK_FirstOrder(hours, timeLag) ==
    IF timeLag > 0
      THEN Num(IF hours >= HU * timeLag THEN 0
               ELSE EU - MulDiv(EU, hours, HU * timeLag))
    ELSE IF timeLag < 0 THEN Num(ExpPos(hours, HU * (-timeLag)))
    ELSE IF hours = 0 THEN NaN
    ELSE Num(0)

(* Math.exp(-k) for k = hours / timeLag as JavaScript divides: the factor  *)
(* in units of 1/EU, or NaN.  hours >= 0 is in 1/HU hour, timeLag in hours *)
ExpMinusK(hours, timeLag) ==
    IF timeLag > 0 THEN Num(ExpNeg(hours, HU * timeLag))
    ELSE IF timeLag < 0 THEN Num(ExpPos(hours, HU * (-timeLag)))
    ELSE IF hours = 0 THEN NaN        \* 0 / 0 is NaN
    ELSE Num(0)                       \* k = Infinity, Math.exp(-Infinity) = 0

(* d * f for a difference d in 1/MU and a factor f in 1/EU *)
Scale(d, f) == IF d >= 0 THEN MulEU(d, f) ELSE -MulEU(-d, f)

----------------------------------------------------------------------------
(* stepMoisture, src/fuel-moisture-integration.js *)

(* emc - (currentMoisture - emc) * Math.exp(-k) *)
Relax_Overshoot(cur, eq, hours, timeLag) ==
    LET f == ExpMinusK(hours, timeLag)
    IN  IF cur.nan \/ eq.nan \/ f.nan THEN NaN
        ELSE Num(eq.v - Scale(cur.v - eq.v, f.v))

(* line 61: emc + (currentMoisture - emc) * Math.exp(-k) *)
Relax(cur, eq, hours, timeLag) ==
    LET f == ExpMinusK(hours, timeLag)
    IN  IF cur.nan \/ eq.nan \/ f.nan THEN NaN
        ELSE Num(eq.v + Scale(cur.v - eq.v, f.v))

(* Math.max(0, x): NaN if x is NaN *)
MathMax0(x) == IF x.nan THEN NaN ELSE Num(Max(0, x.v))

stepMoisture_NoClamp(cur, eq, hours, timeLag) ==
    IF ~IsNumber(cur) \/ ~IsNumber(eq) \/ ~IsNumber(hours) \/ ~IsNumber(timeLag)
      THEN Throw("Invalid input: all parameters must be numbers")
      ELSE Return(Relax(cur, eq, hours.v, timeLag.v))

stepMoisture(cur, eq, hours, timeLag) ==
    IF ~IsNumber(cur) \/ ~IsNumber(eq) \/ ~IsNumber(hours) \/ ~IsNumber(timeLag)
      THEN Throw("Invalid input: all parameters must be numbers")
      ELSE Return(MathMax0(Relax(cur, eq, hours.v, timeLag.v)))

----------------------------------------------------------------------------
(* FuelMoistureCalc.stepMoisture, src/unnamed/part_000 *)

(* parseFloat(x.toFixed(2)) on 1/MU units *)
ToFixed2Abs(x) == ((x + (MU \div 200)) \div (MU \div 100)) * (MU \div 100)
ToFixed2MU(x) == IF x >= 0 THEN ToFixed2Abs(x) ELSE -ToFixed2Abs(-x)

libStepMoisture(cur, eq, hours, timelag) ==
    IF ~IsNumber(cur) \/ ~IsNumber(eq) \/ ~IsNumber(hours) \/ ~IsNumber(timelag)
      THEN Throw("Invalid input: all parameters must be numbers")
      ELSE IF timelag.v <= 0
        THEN Throw("Timelag must be greater than 0")
        ELSE Return(Num(ToFixed2MU(Relax(cur, eq, hours.v, timelag.v).v)))


----------------------------------------------------------------------------
(* Numbers of src/fire-behavior.js.  The rates of spread span many orders  *)
(* of magnitude, so a non-negative JavaScript number is kept as a decimal  *)
(* floating point record [nan, m, e]: the value (m / 10^6) * 10^e with     *)
(* seven digits 10^6 <= m < 10^7, zero as m = 0, e = 0, or NaN.            *)

DF(m, e) == [nan |-> FALSE, m |-> m, e |-> e]
DFNaN == [nan |-> TRUE, m |-> 0, e |-> 0]
DFZero == DF(0, 0)

(* m * 10^(e - 6) brought to seven digits, for 0 <= m < 2^31 *)
RECURSIVE Norm(_, _)
Norm(m, e) ==
    IF m = 0 THEN DFZero
    ELSE IF m >= 10^7 THEN Norm(m \div 10, e + 1)
    ELSE IF m < 10^6 THEN Norm(m * 10, e - 1)
    ELSE DF(m, e)

(* the literal n / 10^d, the whole number n, and x / 10^6 *)
Dec(n, d) == Norm(n, 6 - d)
FromInt(n) == Norm(n, 6)
FromEU(x) == Norm(x, 0)

(* the n leading decimals of rem / c, for 0 <= rem < c < 10^8 *)
RECURSIVE LongDiv(_, _, _)
LongDiv(rem, c, n) ==
    IF n = 0 THEN 0
    ELSE ((rem * 10) \div c) * 10^(n - 1) + LongDiv((rem * 10) % c, c, n - 1)

(* floor(a * 10^6 / c), for 0 <= a < 100 * c, 0 < c < 10^7 *)
DivEU(a, c) == (a \div c) * EU + LongDiv(a % c, c, 6)

(* a * b and a / b *)
MulDF(a, b) ==
    IF a.nan \/ b.nan THEN DFNaN ELSE Norm(MulEU(a.m, b.m), a.e + b.e)
DivDF(a, b) ==
    IF a.nan \/ b.nan \/ b.m = 0 THEN DFNaN
    ELSE IF a.m < b.m THEN Norm(DivEU(10 * a.m, b.m), a.e - b.e - 1)
    ELSE Norm(DivEU(a.m, b.m), a.e - b.e)

(* a + b *)
AddDF(a, b) ==
    IF a.nan \/ b.nan THEN DFNaN
    ELSE IF a.m = 0 THEN b
    ELSE IF b.m = 0 THEN a
    ELSE IF a.e >= b.e
      THEN Norm(a.m + (IF a.e - b.e > 7 THEN 0 ELSE b.m \div 10^(a.e - b.e)), a.e)
      ELSE Norm(b.m + (IF b.e - a.e > 7 THEN 0 ELSE a.m \div 10^(b.e - a.e)), b.e)

(* a < b; false if either is NaN *)
LtDF(a, b) ==
    /\ ~a.nan /\ ~b.nan
    /\ b.m # 0
    /\ (a.m = 0 \/ a.e < b.e \/ (a.e = b.e /\ a.m < b.m))

(* |a - b| *)
AbsDiffDF(a, b) ==
    IF a.nan \/ b.nan THEN DFNaN
    ELSE IF LtDF(a, b)
      THEN Norm(b.m - (IF b.e - a.e > 7 \/ a.m = 0 THEN 0
                       ELSE a.m \div 10^(b.e - a.e)), b.e)
      ELSE Norm(a.m - (IF a.e - b.e > 7 \/ b.m = 0 THEN 0
                       ELSE b.m \div 10^(a.e - b.e)), a.e)

(* Math.log(2) and Math.log(10) in units of 1/EU, and the 1/10^9 digits   *)
(* of Math.log(10) below them                                              *)
LN2 == 693147
LN10 == 2302585
LN10Low == 93

(* z + z^3/3 + z^5/5 + ..: the terms from p = z^i on, for z2 = z^2 *)
RECURSIVE Atanh(_, _, _)
Atanh(p, i, z2) ==
    IF p = 0 THEN 0 ELSE p \div i + Atanh(MulEU(p, z2), i + 2, z2)

(* Math.log(u / 10^6) in units of 1/EU, for u >= 10^6: halved into [1, 2), *)
(* then log(u) = 2 atanh((u - 1) / (u + 1))                                *)
RECURSIVE LnMant(_)
LnMant(u) ==
    IF u >= 2 * EU THEN LN2 + LnMant(u \div 2)
    ELSE LET z == DivEU(u - EU, u + EU)
         IN  2 * Atanh(z, 1, MulEU(z, z))

(* Math.log(x) in units of 1/EU, for x > 0 *)
LnDF(x) == LnMant(x.m) + x.e * LN10 + (x.e * LN10Low) \div 1000

(* Math.exp(y / 10^6), for any whole y *)
ExpDF(y) ==
    LET k == y \div LN10
        r == y - k * LN10 - (k * LN10Low) \div 1000
    IN  IF r < 0 THEN Norm(ExpPos(r + LN10, EU), k - 1)
        ELSE Norm(ExpPos(r, EU), k)

(* Math.pow(x, num / den) for den > 0: exp((num / den) * log(x)) *)
PowDF(x, num, den) ==
    IF x.nan THEN DFNaN
    ELSE IF x.m = 0 THEN (IF num > 0 THEN DFZero ELSE DFNaN)
    ELSE LET l == LnDF(x)
         IN  ExpDF((l \div den) * num + ((l % den) * num) \div den)

(* the largest s in lo..hi with floor(s * s / 10^6) <= t *)
RECURSIVE SqrtSearch(_, _, _)
SqrtSearch(lo, hi, t) ==
    IF lo = hi THEN lo
    ELSE LET mid == (lo + hi + 1) \div 2
         IN  IF MulEU(mid, mid) <= t THEN SqrtSearch(mid, hi, t)
             ELSE SqrtSearch(lo, mid - 1, t)

(* Math.sqrt(x) *)
SqrtDF(x) ==
    IF x.nan THEN DFNaN
    ELSE IF x.m = 0 THEN DFZero
    ELSE IF x.e % 2 = 0 THEN Norm(SqrtSearch(10^6, 10^7, x.m), x.e \div 2)
    ELSE Norm(SqrtSearch(10^6, 10^7, 10 * x.m), (x.e - 1) \div 2)

(* Math.PI in units of 1/EU *)
PI == 3141593

(* x - x^3/3! + x^5/5! - .. and 1 - x^2/2! + ..: the terms from term (of   *)
(* degree i) on, for x2 = x^2                                              *)
RECURSIVE Trig(_, _, _)
Trig(term, i, x2) ==
    IF term = 0 THEN 0
    ELSE term - Trig(MulEU(term, x2) \div ((i + 1) * (i + 2)), i + 2, x2)

(* Math.tan(degrees * Math.PI / 180) for 0 < degrees < 90 *)
TanDeg(degrees) ==
    LET x == (degrees * PI) \div 180
        x2 == MulEU(x, x)
    IN  DivDF(FromEU(Trig(x, 1, x2)), FromEU(Trig(EU, 0, x2)))

(* Math.floor(x * 10^d) / 10^d *)
RoundDF_Floor(x, d) ==
    IF x.nan THEN DFNaN
    ELSE IF x.e >= 6 - d THEN x
    ELSE IF 6 - d - x.e > 7 THEN DFZero
    ELSE LET unit == 10^(6 - d - x.e)
         IN  Norm((x.m \div unit) * unit, x.e)

(* Math.round(x * 10^d) / 10^d *)
RoundDF(x, d) ==
    IF x.nan THEN DFNaN
    ELSE IF x.e >= 6 - d THEN x
    ELSE IF 6 - d - x.e > 7 THEN DFZero
    ELSE LET unit == 10^(6 - d - x.e)
         IN  Norm(((x.m + unit \div 2) \div unit) * unit, x.e)

(* x is a multiple of 10^-d *)
HasDecimals(x, d) ==
    \/ ~x.nan /\ x.m = 0
    \/ ~x.nan /\ x.e >= 6 - d
    \/ ~x.nan /\ 6 - d - x.e <= 6 /\ x.m % 10^(6 - d - x.e) = 0

----------------------------------------------------------------------------
(* Sixteen decimals.  Just below the moisture of extinction the terms of   *)
(* the damping polynomial cancel and what is left decides whether a rate   *)
(* is reported as 0, so that polynomial is evaluated to the sixteen        *)
(* decimals a double holds: a number is <<i, a, b, c, d>>, the value       *)
(* i + a/10^4 + b/10^8 + c/10^12 + d/10^16 with limbs 0 <= a, b, c, d <    *)
(* 10^4 (i < 0 for a negative number).  Sums are exact, products and       *)
(* quotients are truncated.                                                *)
Limb == 10^4

HP(i, a, b, c, d) == <<i, a, b, c, d>>

(* the limbs 1..k of raw (whole numbers of any size and sign) with the     *)
(* carries taken upward, carry coming in from below limb k                 *)
RECURSIVE CarryHP(_, _, _)
CarryHP(raw, k, carry) ==
    IF k = 1 THEN <<raw[1] + carry>>
    ELSE Append(CarryHP(raw, k - 1, (raw[k] + carry) \div Limb),
                (raw[k] + carry) % Limb)

(* the products of limbs of a and b of weight 10^(-4k), from a's limb i on *)
RECURSIVE ConvHP(_, _, _, _)
ConvHP(a, b, k, i) ==
    IF i > 4 \/ i > k THEN 0
    ELSE (IF k - i <= 4 THEN a[i + 1] * b[k - i + 1] ELSE 0)
         + ConvHP(a, b, k, i + 1)

(* a * b, for a >= 0, b >= 0 *)
MulHP(a, b) ==
    CarryHP([k \in 1..5 |-> ConvHP(a, b, k - 1, 0)], 5,
            ConvHP(a, b, 5, 0) \div Limb)

(* long division: the n digits of limb f brought down to the remainder rem *)
(* of a division by c < 2 * 10^8                                           *)
RECURSIVE DivLimb(_, _, _, _)
DivLimb(rem, c, f, n) ==
    IF n = 0 THEN [q |-> 0, rem |-> rem]
    ELSE LET t == rem * 10 + ((f \div 10^(n - 1)) % 10)
             rest == DivLimb(t % c, c, f, n - 1)
         IN  [q |-> (t \div c) * 10^(n - 1) + rest.q, rem |-> rest.rem]

(* (x + 0.f) / c for a whole x >= 0 and the sixteen decimals f *)
DivHP(x, f, c) ==
    LET q1 == DivLimb(x % c, c, f[1], 4)
        q2 == DivLimb(q1.rem, c, f[2], 4)
        q3 == DivLimb(q2.rem, c, f[3], 4)
        q4 == DivLimb(q3.rem, c, f[4], 4)
    IN  <<x \div c, q1.q, q2.q, q3.q, q4.q>>

(* x * 10^(e - 6), the digits of the limb next brought in until there are  *)
(* seven                                                                   *)
RECURSIVE LeadHP(_, _, _)
LeadHP(x, next, e) ==
    IF x >= 10^6 THEN Norm(x, e)
    ELSE LeadHP(x * 10 + (next \div 1000), (next % 1000) * 10, e - 1)

(* the seven leading digits of h >= 0 *)
FromHP(h) ==
    IF h[1] > 0 THEN Norm(h[1] * 10^6 + h[2] * 100 + (h[3] \div 100), 0)
    ELSE IF h[2] > 0 THEN LeadHP(h[2] * Limb + h[3], h[4], -2)
    ELSE IF h[3] > 0 THEN LeadHP(h[3] * Limb + h[4], h[5], -6)
    ELSE IF h[4] > 0 THEN LeadHP(h[4] * Limb + h[5], 0, -10)
    ELSE Norm(h[5], -10)

(* A JavaScript number between two multiples of 1/MU: (x + 0.f) / MU for   *)
(* the sixteen decimals f = <<a, b, c, d>>; v is then its floor, which     *)
(* decides every comparison with a multiple of 1/MU                        *)
Fine(x, f) == [t |-> "number", nan |-> FALSE, v |-> x, frac |-> f]

FracOf(n) == IF "frac" \in DOMAIN n THEN n.frac ELSE <<0, 0, 0, 0>>

----------------------------------------------------------------------------
(* FUEL_MODELS, src/fire-behavior.js lines 21-99 *)

Fuel(name, load, savRatio, depth, moistureExt, heatContent) ==
    [name |-> name, load |-> load, savRatio |-> savRatio, depth |-> depth,
     moistureExt |-> moistureExt, heatContent |-> heatContent]

FUEL_MODELS ==
    "1" :> Fuel("Short Grass (1 ft)",
                Dec(74, 2), FromInt(3500), Dec(10, 1), Num(12 * MU), FromInt(8000))
    @@ "2" :> Fuel("Timber Grass/Understory (1 ft)",
                   Dec(20, 1), FromInt(3000), Dec(10, 1), Num(15 * MU), FromInt(8000))
    @@ "3" :> Fuel("Tall Grass (2.5 ft)",
                   Dec(301, 2), FromInt(1500), Dec(25, 1), Num(25 * MU), FromInt(8000))
    @@ "4" :> Fuel("Chaparral (6 ft)",
                   Dec(501, 2), FromInt(2000), Dec(60, 1), Num(20 * MU), FromInt(8000))
    @@ "5" :> Fuel("Brush (2 ft)",
                   Dec(10, 1), FromInt(2000), Dec(20, 1), Num(20 * MU), FromInt(8000))
    @@ "6" :> Fuel("Dormant Brush/Hardwood Slash",
                   Dec(15, 1), FromInt(1750), Dec(25, 1), Num(25 * MU), FromInt(8000))
    @@ "7" :> Fuel("Southern Rough",
                   Dec(113, 2), FromInt(1550), Dec(25, 1), Num(40 * MU), FromInt(8000))
    @@ "8" :> Fuel("Closed Timber Litter",
                   Dec(15, 1), FromInt(2000), Dec(2, 1), Num(30 * MU), FromInt(8000))
    @@ "9" :> Fuel("Hardwood Litter",
                   Dec(292, 2), FromInt(2500), Dec(2, 1), Num(25 * MU), FromInt(8000))
    @@ "10" :> Fuel("Timber Litter/Understory",
                    Dec(301, 2), FromInt(2000), Dec(10, 1), Num(25 * MU), FromInt(8000))

(* Property names every object literal inherits from Object.prototype:     *)
(* FUEL_MODELS[key] is then a function object, which is truthy, has a name *)
(* and none of a fuel model's numbers (undefined, NaN in arithmetic)       *)
ObjectPrototype == {"toString", "hasOwnProperty", "valueOf"}

(* FUEL_MODELS[fuelModel] *)
GetFuel(models, fuelModel) ==
    IF fuelModel \in DOMAIN models THEN models[fuelModel]
    ELSE IF fuelModel \in ObjectPrototype
      THEN Fuel(fuelModel, DFNaN, DFNaN, DFNaN, Undefined, DFNaN)
      ELSE Undefined

----------------------------------------------------------------------------
(* calculateRateOfSpread, src/fire-behavior.js *)

(* fuelMoisture > fuel.moistureExt *)
AtExtinction_Above(fuelMoisture, moistureExt) ==
    IsNumber(moistureExt) /\ fuelMoisture.v > moistureExt.v

(* line 120: fuelMoisture >= fuel.moistureExt (false against undefined) *)
AtExtinction(fuelMoisture, moistureExt) ==
    IsNumber(moistureExt) /\ fuelMoisture.v >= moistureExt.v

(* 1 - 2.59 r + 5.11 r^2, the cubic term left out *)
MoistureDamping_NoCubic(fuelMoisture, moistureExt) ==
    IF ~IsNumber(moistureExt) THEN DFNaN
    ELSE LET sign == IF fuelMoisture.v < 0 THEN -1 ELSE 1
             r == DivHP(Abs(fuelMoisture.v), FracOf(fuelMoisture), moistureExt.v)
             one == HP(1, 0, 0, 0, 0)
             t1 == MulHP(HP(2, 5900, 0, 0, 0), r)
             t2 == MulHP(HP(5, 1100, 0, 0, 0), MulHP(r, r))
         IN  FromHP(CarryHP([k \in 1..5 |-> one[k] - sign * t1[k] + t2[k]], 5, 0))

(* lines 125-127: 1 - 2.59 r + 5.11 r^2 - 3.52 r^3 for r = fuelMoisture /  *)
(* moistureExt < 1, evaluated to sixteen decimals (a negative fuelMoisture *)
(* is a multiple of 1/MU)                                                  *)
MoistureDamping(fuelMoisture, moistureExt) ==
    IF ~IsNumber(moistureExt) THEN DFNaN
    ELSE LET sign == IF fuelMoisture.v < 0 THEN -1 ELSE 1
             r == DivHP(Abs(fuelMoisture.v), FracOf(fuelMoisture), moistureExt.v)
             one == HP(1, 0, 0, 0, 0)
             t1 == MulHP(HP(2, 5900, 0, 0, 0), r)
             t2 == MulHP(HP(5, 1100, 0, 0, 0), MulHP(r, r))
             t3 == MulHP(HP(3, 5200, 0, 0, 0), MulHP(MulHP(r, r), r))
         IN  FromHP(CarryHP([k \in 1..5 |->
                                one[k] - sign * t1[k] + t2[k] - sign * t3[k]],
                            5, 0))

(* x in units of 1/EU, for 0 <= x < 1000 *)
ToEU(x) == IF x.e >= 0 THEN x.m * 10^x.e ELSE x.m \div 10^(-x.e)

(* lines 132-134: Math.exp((0.792 + 0.681 sqrt(sigma)) (0.1 + depth)) *)
PropagatingFlux(sigma, depth) ==
    LET k == MulDF(AddDF(Dec(792, 3), MulDF(Dec(681, 3), SqrtDF(sigma))),
                   AddDF(Dec(1, 1), depth))
    IN  IF k.nan THEN DFNaN ELSE ExpDF(ToEU(k))

(* lines 137-138 *)
WindCoeff(windSpeed, sigma) ==
    IF windSpeed > 0
      THEN MulDF(MulDF(PowDF(FromInt(windSpeed), 1, 2), PowDF(sigma, -1, 2)),
                 Dec(4, 1))
      ELSE DFZero

(* lines 141-143, for -90 < slope < 90 degrees: the tangent is positive    *)
(* exactly if the slope is                                                 *)
SlopeCoeff(slope, sigma) ==
    IF slope > 0
      THEN LET slopePercent == MulDF(TanDeg(slope), FromInt(100))
               fraction == DivDF(slopePercent, FromInt(100))
           IN  MulDF(MulDF(Dec(5275, 3), PowDF(sigma, -3, 10)),
                     MulDF(fraction, fraction))
      ELSE DFZero

(* lines 121 and 151-162: the two result objects *)
NoSpread == [ros |-> DFZero, rosMetric |-> DFZero, canSpread |-> FALSE]

Spread(rosFtPerMin, reactionIntensity) ==
    [ros |-> DivDF(MulDF(rosFtPerMin, FromInt(60)), FromInt(66)),
     rosMetric |-> MulDF(rosFtPerMin, Dec(3048, 4)),
     rosFtPerMin |-> rosFtPerMin,
     canSpread |-> TRUE,
     reactionIntensity |-> reactionIntensity]

(* lines 113-163; windSpeed in whole mph, slope in whole degrees *)
calculateRateOfSpread(models, windSpeed, fuelMoisture, slope, fuelModel) ==
    LET fuel == GetFuel(models, fuelModel)
    IN  IF fuel = Undefined THEN Throw("Invalid fuel model")
        ELSE IF AtExtinction(fuelMoisture, fuel.moistureExt) THEN Return(NoSpread)
        ELSE LET moistureDamping == MoistureDamping(fuelMoisture, fuel.moistureExt)
                 reactionIntensity ==
                     DivDF(MulDF(MulDF(fuel.load, fuel.heatContent), moistureDamping),
                           FromInt(60))
                 sigma == fuel.savRatio
                 rosBase == DivDF(MulDF(reactionIntensity,
                                        PropagatingFlux(sigma, fuel.depth)),
                                  MulDF(fuel.load, Dec(1, 2)))
                 rosFtPerMin ==
                     MulDF(rosBase,
                           AddDF(AddDF(FromInt(1), WindCoeff(windSpeed, sigma)),
                                 SlopeCoeff(slope, sigma)))
             IN  Return(Spread(rosFtPerMin, reactionIntensity))

----------------------------------------------------------------------------
(* calculateFlameLength and calculateFirelineIntensity *)

(* lines 172-181 *)
calculateFlameLength(intensity) ==
    LET flameLengthFt == MulDF(Dec(45, 2), PowDF(intensity, 46, 100))
    IN  [flameLengthFt |-> flameLengthFt,
         flameLengthM |-> MulDF(flameLengthFt, Dec(3048, 4))]

(* lines 192-205 *)
calculateFirelineIntensity(ros, fuelLoad, heatContent) ==
    LET fuelLoadLbPerFt2 == DivDF(MulDF(fuelLoad, FromInt(2000)), FromInt(43560))
    IN  DivDF(MulDF(MulDF(heatContent, fuelLoadLbPerFt2), ros), FromInt(60))

----------------------------------------------------------------------------
(* predictFireBehavior, src/fire-behavior.js.  params is the object passed: *)
(* params.given is the set of its property names, a property that is not    *)
(* given takes the default of the destructuring.  useEMC is a boolean.      *)
(* FuelMoistureIntegration is loaded (lines 9-16), as it is under Node.     *)

Param(params, name, default) ==
    IF name \in params.given THEN params[name] ELSE default

(* a value in the condition of an if: numbers other than 0 and NaN, and    *)
(* the (non-empty) string                                                  *)
Truthy(x) ==
    \/ x.t = "number" /\ ~x.nan /\ x.v # 0
    \/ x.t = "string"

Message == "Fuel moisture exceeds extinction moisture. Fire will not spread."

(* lines 247-252, with the fields of a spreading fire added at zero *)
NoSpreadResult_Derived(fuel, calculatedEMC) ==
    [canSpread |-> FALSE, message |-> Message, fuelModel |-> fuel.name,
     emc |-> calculatedEMC,
     rateOfSpread |-> [chainsPerHour |-> DFZero, metersPerMin |-> DFZero,
                       feetPerMin |-> DFZero],
     flameLength |-> [feet |-> DFZero, meters |-> DFZero],
     firelineIntensity |-> DFZero]

(* lines 247-252 *)
NoSpreadResult(fuel, calculatedEMC) ==
    [canSpread |-> FALSE, message |-> Message, fuelModel |-> fuel.name,
     emc |-> calculatedEMC]

(* lines 255-290: calculatedEMC is null or a number *)
SpreadResult(fuel, spreadResult, conditions, calculatedEMC) ==
    LET intensity == calculateFirelineIntensity(spreadResult.rosFtPerMin,
                                                fuel.load, fuel.heatContent)
        flameResult == calculateFlameLength(intensity)
        result ==
            [canSpread |-> TRUE,
             fuelModel |-> fuel.name,
             rateOfSpread |->
                 [chainsPerHour |-> RoundDF(spreadResult.ros, 2),
                  metersPerMin |-> RoundDF(spreadResult.rosMetric, 2),
                  feetPerMin |-> RoundDF(spreadResult.rosFtPerMin, 2)],
             flameLength |->
                 [feet |-> RoundDF(flameResult.flameLengthFt, 1),
                  meters |-> RoundDF(flameResult.flameLengthM, 1)],
             firelineIntensity |-> RoundDF(intensity, 0),
             conditions |-> conditions]
    IN  IF calculatedEMC # Null
          THEN result @@ [emc |-> RoundNum1(calculatedEMC)]
          ELSE result

(* lines 214-291 *)
predictFireBehavior(models, params) ==
    LET windSpeed == Param(params, "windSpeed", 0)
        fuelMoisture == Param(params, "fuelMoisture", Num(10 * MU))
        slope == Param(params, "slope", 0)
        fuelModel == Param(params, "fuelModel", "2")
        temp == Param(params, "temp", Num(70))
        rh == Param(params, "rh", Num(30))
        useEMC == Param(params, "useEMC", FALSE)
        fuel == GetFuel(models, fuelModel)
        computed == IF useEMC /\ Truthy(temp) /\ Truthy(rh)
                      THEN computeEMC(temp, rh)
                      ELSE Return(Null)
    IN  IF fuel = Undefined THEN Return([error |-> "Invalid fuel model"])
        ELSE IF computed.st = "throw" THEN computed
        ELSE LET calculatedEMC == computed.val
                 effectiveMoisture ==
                     IF calculatedEMC # Null THEN calculatedEMC ELSE fuelMoisture
                 spreadResult ==
                     calculateRateOfSpread(models, windSpeed, effectiveMoisture,
                                           slope, fuelModel).val
             IN  IF ~spreadResult.canSpread
                   THEN Return(NoSpreadResult(fuel, calculatedEMC))
                   ELSE Return(SpreadResult(
                            fuel, spreadResult,
                            [windSpeed |-> windSpeed,
                             fuelMoisture |-> effectiveMoisture,
                             slope |-> slope, temp |-> temp, rh |-> rh],
                            calculatedEMC))

----------------------------------------------------------------------------
(* The calls: the function and its arguments.  Unused arguments are        *)
(* Undefined.  moisture is currentMoisture or initialMoisture, hours is    *)
(* the elapsed hours or the duration.                                      *)

MkCall(fn, moisture, eq, tempF, rh, hours, timeLag, steps, isArray) ==
    [fn |-> fn, moisture |-> moisture, emc |-> eq, tempF |-> tempF, rh |-> rh,
     hours |-> hours, timeLag |-> timeLag, steps |-> steps, isArray |-> isArray]

(* longest weatherSteps list, and the largest -hours/timeLag of a negative *)
(* time lag (the factor Math.exp(-k) then grows; ExpPosTable ends at 5)    *)
MaxSteps == 2
MaxGrowth == 3

Nums(S) == {Num(x) : x \in S}

TempsF == Nums({-100000, 32, 70, 85, 100000})
Humidities == Nums({-1, 0, 5, 10, 11, 25, 50, 51, 80, 100, 101, 150})
Moistures == Nums({-10 * MU, -5 * MU, 0, 5 * MU, 10 * MU, 15 * MU, 20 * MU})
Equilibria == Nums({-5 * MU, 0, 5 * MU, 10 * MU})
ElapsedHours == Nums({0, HU \div 2, HU, 2 * HU, 6 * HU, 1000 * HU})
TimeLags == Nums({-1, 0, 1, 10, 100})

(* a negative time lag is kept where the growing factor stays in the table *)
GrowthOK(hours, timeLag) ==
    (IsNumber(hours) /\ IsNumber(timeLag) /\ timeLag.v < 0)
        => hours.v <= MaxGrowth * HU * (-timeLag.v)

EMCCalls(fn) ==
    {MkCall(fn, Undefined, Undefined, T, H, Undefined, Undefined, <<>>, FALSE) :
        T \in TempsF \cup {Str}, H \in Humidities \cup {Str}}

StepCalls(fn) ==
    {MkCall(fn, a[1], a[2], Undefined, Undefined, a[3], a[4], <<>>, FALSE) :
        a \in {x \in (Moistures \cup {Str}) \X (Equilibria \cup {Str})
                      \X (ElapsedHours \cup {Str}) \X (TimeLags \cup {Str}) :
                  GrowthOK(x[3], x[4])}}

(* weather steps: valid ones, ones with a mistyped or missing field, and   *)
(* one whose humidity computeEMC rejects                                   *)
WeatherStep(tempF, rh, hours) == [tempF |-> tempF, rh |-> rh, hours |-> hours]
WeatherSteps ==
    {WeatherStep(Num(85), Num(25), Num(6 * HU)),
     WeatherStep(Num(95), Num(15), Num(6 * HU)),
     WeatherStep(Num(70), Num(80), Num(HU)),
     WeatherStep(Num(85), Num(25), Num(0)),
     WeatherStep(Str, Num(25), Num(6 * HU)),
     WeatherStep(Num(85), Undefined, Num(6 * HU)),
     WeatherStep(Num(85), Num(25), Undefined),
     WeatherStep(Num(85), Num(150), Num(6 * HU))}

StepLists == UNION {[1..n -> WeatherSteps] : n \in 0..MaxSteps}

RunModelCalls ==
    {MkCall("runModel", m, Undefined, Undefined, Undefined, Undefined, tl, l, TRUE) :
        m \in Nums({15 * MU, 20 * MU}), tl \in Nums({0, 1, 10}), l \in StepLists}
    \cup
    {MkCall("runModel", m, Undefined, Undefined, Undefined, Undefined, tl, <<>>, FALSE) :
        m \in Nums({15 * MU, 20 * MU}), tl \in Nums({0, 1, 10})}

Durations ==
    Nums({0, HU \div 2, HU, 4 * HU, 25 * (HU \div 2), 24 * HU,
          25 * HU + 7 * (HU \div 8), 36 * HU, 48 * HU})

DryingCalls ==
    {MkCall("calculateDryingPattern", m, Undefined, w[1], w[2], a[1], a[2], <<>>, FALSE) :
        m \in Nums({-5 * MU, 0, 516500, 6 * MU, 1825000, 20 * MU}),
        w \in {<<Num(85), Num(25)>>, <<Num(70), Num(80)>>, <<Num(90), Num(5)>>,
               <<Num(85), Num(150)>>, <<Str, Num(25)>>},
        a \in {x \in Durations \X TimeLags : GrowthOK(x[1], x[2])}}

(* Calls of src/fire-behavior.js.  given is the set of argument or         *)
(* property names that are passed; the others take their defaults.  Wind   *)
(* is in whole mph, slope in whole degrees, moisture in 1/MU percent.      *)
MkFireCall(fn, given, windSpeed, fuelMoisture, slope, fuelModel, temp, rh, useEMC) ==
    [fn |-> fn, given |-> given, windSpeed |-> windSpeed,
     fuelMoisture |-> fuelMoisture, slope |-> slope, fuelModel |-> fuelModel,
     temp |-> temp, rh |-> rh, useEMC |-> useEMC,
     ros |-> DFZero, fuelLoad |-> DFZero, heatContent |-> DFZero,
     intensity |-> DFZero]

MkIntensityCall(fn, given, ros, fuelLoad, heatContent, intensity) ==
    [fn |-> fn, given |-> given, windSpeed |-> 0,
     fuelMoisture |-> Undefined, slope |-> 0, fuelModel |-> "",
     temp |-> Undefined, rh |-> Undefined, useEMC |-> FALSE,
     ros |-> ros, fuelLoad |-> fuelLoad, heatContent |-> heatContent,
     intensity |-> intensity]

AllParams ==
    {"windSpeed", "fuelMoisture", "slope", "fuelModel", "temp", "rh", "useEMC"}

(* '99' is in no table; 'toString' is inherited by every object *)
FuelKeys == DOMAIN FUEL_MODELS \cup {"99", "toString"}

WindSlopes == {<<0, 0>>, <<10, 0>>, <<5, 20>>, <<10, -10>>, <<-5, 45>>}

(* the moisture 10^-20 percent, and the moistures 10^-5 and 10^-10 percent *)
(* below the moisture of extinction of fuel model k                        *)
Tiny == Fine(0, <<0, 0, 0, 10>>)
JustBelow(x) == Fine(x - 1, <<9999, 9000, 0, 0>>)
NearExtinction(k) ==
    IF k \in DOMAIN FUEL_MODELS
      THEN {Num(FUEL_MODELS[k].moistureExt.v - 1),
            JustBelow(FUEL_MODELS[k].moistureExt.v)}
      ELSE {}

SpreadMoistures ==
    Nums({-5 * MU, 0, 8 * MU, 8 * MU + MU \div 100, 12 * MU, 15 * MU, 20 * MU,
          25 * MU, 30 * MU, 40 * MU, 45 * MU})
    \cup {Tiny}

MoisturesOf(k) == SpreadMoistures \cup NearExtinction(k)

RateOfSpreadCalls ==
    UNION {{MkFireCall("calculateRateOfSpread", AllParams, ws[1], m, ws[2], k,
                       Undefined, Undefined, FALSE) :
               ws \in WindSlopes, m \in MoisturesOf(k)} : k \in FuelKeys}
    \cup
    {MkFireCall("calculateRateOfSpread", AllParams \ {"fuelModel"}, 10, m, 0, "",
                Undefined, Undefined, FALSE) :
        m \in Nums({8 * MU, 15 * MU})}

PredictCalls ==
    {MkFireCall("predictFireBehavior", g, ws[1], m, ws[2], k, t, h, u) :
        g \in {AllParams, AllParams \ {"fuelMoisture"}},
        ws \in {<<0, 0>>, <<10, 0>>, <<5, 20>>},
        m \in Nums({8 * MU, 30 * MU}),
        k \in {"1", "2", "8", "99", "toString"},
        t \in Nums({0, 70, 95}) \cup {Str},
        h \in Nums({0, 25, 80, 150}),
        u \in BOOLEAN}
    \cup
    {MkFireCall("predictFireBehavior", g, 10, Num(8 * MU), 0, k, Num(85), Num(30), TRUE) :
        g \in {{}, {"fuelModel"}, {"fuelModel", "useEMC"},
               {"fuelModel", "useEMC", "rh"}},
        k \in {"1", "9", "99"}}
    \cup
    UNION {{MkFireCall("predictFireBehavior", AllParams, ws[1], m, ws[2], k,
                       Num(70), Num(25), FALSE) :
               ws \in {<<0, 0>>, <<10, 0>>, <<5, 20>>},
               m \in {Tiny} \cup NearExtinction(k)} : k \in {"1", "8", "9"}}

FlameLengthCalls ==
    {MkIntensityCall("calculateFlameLength", {"intensity"}, DFZero, DFZero, DFZero, i) :
        i \in {DFZero, FromInt(1), FromInt(100), DF(1020347, 9)}}

FirelineIntensityCalls ==
    {MkIntensityCall("calculateFirelineIntensity", g, r, l, FromInt(8000), DFZero) :
        g \in {{"ros", "fuelLoad"}, {"ros", "fuelLoad", "heatContent"}},
        r \in {DFZero, FromInt(10), DF(1110538, 8)},
        l \in {Dec(74, 2), Dec(20, 1)}}

FireFns ==
    {"calculateRateOfSpread", "calculateFlameLength",
     "calculateFirelineIntensity", "predictFireBehavior"}

FireCalls ==
    RateOfSpreadCalls \cup PredictCalls \cup FlameLengthCalls
    \cup FirelineIntensityCalls

(* the caller between two calls *)
NoCall == [fn |-> "none"]

(* the most calls one client makes in a row *)
MaxCalls == 2

Calls ==
    EMCCalls("computeEMC") \cup EMCCalls("FuelMoistureCalc.computeEMC")
    \cup StepCalls("stepMoisture") \cup StepCalls("FuelMoistureCalc.stepMoisture")
    \cup RunModelCalls \cup DryingCalls \cup FireCalls

----------------------------------------------------------------------------
(* The state machine *)

Init ==
    /\ pc = "start"
    /\ call \in Calls
    /\ ret = NoRet
    /\ results = <<>>
    /\ currentMoisture = Undefined
    /\ cumulativeHours = 0
    /\ emc = Undefined
    /\ hour = 0
    /\ fuelModels = FUEL_MODELS
    /\ callsMade = 1

Locals == <<results, currentMoisture, cumulativeHours, emc, hour>>

(* the table of src/fire-behavior.js and the number of calls made so far *)
Shared == <<fuelModels, callsMade>>

ComputeEMCCall ==
    /\ pc = "start"
    /\ call.fn = "computeEMC"
    /\ ret' = computeEMC(call.tempF, call.rh)
    /\ pc' = "done"
    /\ UNCHANGED <<call, Locals, Shared>>

LibComputeEMCCall ==
    /\ pc = "start"
    /\ call.fn = "FuelMoistureCalc.computeEMC"
    /\ ret' = libComputeEMC(call.tempF, call.rh)
    /\ pc' = "done"
    /\ UNCHANGED <<call, Locals, Shared>>

StepMoistureCall ==
    /\ pc = "start"
    /\ call.fn = "stepMoisture"
    /\ ret' = stepMoisture(call.moisture, call.emc, call.hours, call.timeLag)
    /\ pc' = "done"
    /\ UNCHANGED <<call, Locals, Shared>>

LibStepMoistureCall ==
    /\ pc = "start"
    /\ call.fn = "FuelMoistureCalc.stepMoisture"
    /\ ret' = libStepMoisture(call.moisture, call.emc, call.hours, call.timeLag)
    /\ pc' = "done"
    /\ UNCHANGED <<call, Locals, Shared>>


----------------------------------------------------------------------------
(* runModel, src/fuel-moisture-integration.js *)

Entry(hours, moisture, eq, tempF, rh) ==
    [hours |-> hours, moisture |-> moisture, emc |-> eq, tempF |-> tempF, rh |-> rh]

(* lines 78-82: the entry at hour 0 *)
InitialEntry(initialMoisture) == Entry(0, initialMoisture, Null, Undefined, Undefined)

(* line 96: cumulativeHours += hours *)
AddHours_Overwrite(cumulative, hours) == hours

AddHours(cumulative, hours) == cumulative + hours

(* an iteration that carries the moisture it reports, rounded, into the    *)
(* next one                                                                *)
RunModelBody_FeedsRounded(step, cur, cumulative, timeLag) ==
    LET stop(o) == [out |-> o, cur |-> cur, cum |-> cumulative,
                    entry |-> InitialEntry(Undefined)]
    IN  IF ~IsNumber(step.tempF) \/ ~IsNumber(step.rh) \/ ~IsNumber(step.hours)
          THEN stop(Throw("Invalid weather step: must contain tempF, rh, and hours"))
          ELSE LET e == computeEMC(step.tempF, step.rh)
               IN  IF e.st = "throw" THEN stop(e)
                   ELSE LET m == stepMoisture(cur, e.val, step.hours, timeLag)
                            c == AddHours(cumulative, step.hours.v)
                        IN  IF m.st = "throw" THEN stop(m)
                            ELSE [out |-> NoRet, cur |-> RoundNum1(m.val), cum |-> c,
                                  entry |-> Entry(c, RoundNum1(m.val), RoundNum1(e.val),
                                                  step.tempF, step.rh)]

(* lines 88-104, one iteration: the error it throws (out), or the new      *)
(* currentMoisture and cumulativeHours and the entry it pushes             *)
RunModelBody(step, cur, cumulative, timeLag) ==
    LET stop(o) == [out |-> o, cur |-> cur, cum |-> cumulative,
                    entry |-> InitialEntry(Undefined)]
    IN  IF ~IsNumber(step.tempF) \/ ~IsNumber(step.rh) \/ ~IsNumber(step.hours)
          THEN stop(Throw("Invalid weather step: must contain tempF, rh, and hours"))
          ELSE LET e == computeEMC(step.tempF, step.rh)
               IN  IF e.st = "throw" THEN stop(e)
                   ELSE LET m == stepMoisture(cur, e.val, step.hours, timeLag)
                            c == AddHours(cumulative, step.hours.v)
                        IN  IF m.st = "throw" THEN stop(m)
                            ELSE [out |-> NoRet, cur |-> m.val, cum |-> c,
                                  entry |-> Entry(c, RoundNum1(m.val), RoundNum1(e.val),
                                                  step.tempF, step.rh)]

(* lines 74-85 *)
RunModelEnter ==
    /\ pc = "start"
    /\ call.fn = "runModel"
    /\ IF ~call.isArray
         THEN /\ ret' = Throw("weatherSteps must be an array")
              /\ pc' = "done"
              /\ UNCHANGED Locals
         ELSE /\ results' = <<InitialEntry(call.moisture)>>
              /\ currentMoisture' = call.moisture
              /\ cumulativeHours' = 0
              /\ pc' = "loop"
              /\ UNCHANGED <<ret, emc, hour>>
    /\ UNCHANGED <<call, Shared>>

(* a runModel that catches the error and hands back what it has so far *)
RunModelStep_ReturnsPartial ==
    /\ pc = "loop"
    /\ call.fn = "runModel"
    /\ Len(results) <= Len(call.steps)
    /\ LET b == RunModelBody(call.steps[Len(results)], currentMoisture,
                             cumulativeHours, call.timeLag)
       IN  IF b.out.st = "throw"
             THEN /\ ret' = [Return(Undefined) EXCEPT !.list = results]
                  /\ pc' = "done"
                  /\ UNCHANGED Locals
             ELSE /\ currentMoisture' = b.cur
                  /\ cumulativeHours' = b.cum
                  /\ results' = Append(results, b.entry)
                  /\ UNCHANGED <<pc, ret, emc, hour>>
    /\ UNCHANGED <<call, Shared>>

(* lines 87-105: the iteration over step number Len(results) *)
RunModelStep ==
    /\ pc = "loop"
    /\ call.fn = "runModel"
    /\ Len(results) <= Len(call.steps)
    /\ LET b == RunModelBody(call.steps[Len(results)], currentMoisture,
                             cumulativeHours, call.timeLag)
       IN  IF b.out.st = "throw"
             THEN /\ ret' = b.out
                  /\ pc' = "done"
                  /\ UNCHANGED Locals
             ELSE /\ currentMoisture' = b.cur
                  /\ cumulativeHours' = b.cum
                  /\ results' = Append(results, b.entry)
                  /\ UNCHANGED <<pc, ret, emc, hour>>
    /\ UNCHANGED <<call, Shared>>

(* line 107 *)
RunModelReturn ==
    /\ pc = "loop"
    /\ call.fn = "runModel"
    /\ Len(results) > Len(call.steps)
    /\ ret' = [Return(Undefined) EXCEPT !.list = results]
    /\ pc' = "done"
    /\ UNCHANGED <<call, Locals, Shared>>

----------------------------------------------------------------------------
(* calculateDryingPattern, src/fuel-moisture-integration.js *)

Sample(hours, moisture) == [hours |-> hours, moisture |-> moisture]

(* Math.max(1 / 2, duration / 48) *)
IntervalHours_48Points(duration) == Max(HU \div 2, duration \div 48)

(* line 122: Math.max(1, duration / 24) *)
IntervalHours(duration) == Max(HU, duration \div 24)

(* line 125: the sample at hour 0 *)
FirstSample_Rounded(initialMoisture) == Sample(0, RoundNum1(initialMoisture))

FirstSample(initialMoisture) == Sample(0, initialMoisture)

(* lines 120-127 *)
DryingEnter ==
    /\ pc = "start"
    /\ call.fn = "calculateDryingPattern"
    /\ LET e == computeEMC(call.tempF, call.rh)
       IN  IF e.st = "throw"
             THEN /\ ret' = e
                  /\ pc' = "done"
                  /\ UNCHANGED Locals
             ELSE /\ emc' = e.val
                  /\ currentMoisture' = call.moisture
                  /\ results' = <<FirstSample(call.moisture)>>
                  /\ hour' = IntervalHours(call.hours.v)
                  /\ pc' = "loop"
                  /\ UNCHANGED <<ret, cumulativeHours>>
    /\ UNCHANGED <<call, Shared>>

(* lines 127-133: one iteration *)
DryingStep ==
    /\ pc = "loop"
    /\ call.fn = "calculateDryingPattern"
    /\ hour <= call.hours.v
    /\ LET intervalHours == IntervalHours(call.hours.v)
           m == stepMoisture(currentMoisture, emc, Num(intervalHours), call.timeLag)
       IN  IF m.st = "throw"
             THEN /\ ret' = m
                  /\ pc' = "done"
                  /\ UNCHANGED Locals
             ELSE /\ currentMoisture' = m.val
                  /\ results' = Append(results,
                                       Sample(Round1(hour, HU), RoundNum1(m.val)))
                  /\ hour' = hour + intervalHours
                  /\ UNCHANGED <<pc, ret, emc, cumulativeHours>>
    /\ UNCHANGED <<call, Shared>>

(* lines 135-141 *)
DryingReturn ==
    /\ pc = "loop"
    /\ call.fn = "calculateDryingPattern"
    /\ hour > call.hours.v
    /\ ret' = [st |-> "return", msg |-> "", val |-> results[Len(results)].moisture,
               list |-> results, emc |-> RoundNum1(emc)]
    /\ pc' = "done"
    /\ UNCHANGED <<call, Locals, Shared>>

----------------------------------------------------------------------------
(* src/fire-behavior.js: each function reads the module's table *)

RateOfSpreadCall ==
    /\ pc = "start"
    /\ call.fn = "calculateRateOfSpread"
    /\ ret' = calculateRateOfSpread(fuelModels, call.windSpeed, call.fuelMoisture,
                                    call.slope, Param(call, "fuelModel", "2"))
    /\ pc' = "done"
    /\ UNCHANGED <<call, Locals, Shared>>

FlameLengthCall ==
    /\ pc = "start"
    /\ call.fn = "calculateFlameLength"
    /\ ret' = Return(calculateFlameLength(call.intensity))
    /\ pc' = "done"
    /\ UNCHANGED <<call, Locals, Shared>>

FirelineIntensityCall ==
    /\ pc = "start"
    /\ call.fn = "calculateFirelineIntensity"
    /\ ret' = Return(calculateFirelineIntensity(
                  call.ros, call.fuelLoad, Param(call, "heatContent", FromInt(8000))))
    /\ pc' = "done"
    /\ UNCHANGED <<call, Locals, Shared>>

(* predictFireBehavior that keeps the moisture it was given in the table *)
PredictFireBehaviorCall_KeepsMoisture ==
    /\ pc = "start"
    /\ call.fn = "predictFireBehavior"
    /\ ret' = predictFireBehavior(fuelModels, call)
    /\ pc' = "done"
    /\ fuelModels' =
           LET k == Param(call, "fuelModel", "2")
           IN  IF k \in DOMAIN fuelModels
                 THEN [fuelModels EXCEPT
                          ![k].moistureExt = Param(call, "fuelMoisture", Num(10 * MU))]
                 ELSE fuelModels
    /\ UNCHANGED <<call, Locals, callsMade>>

PredictFireBehaviorCall ==
    /\ pc = "start"
    /\ call.fn = "predictFireBehavior"
    /\ ret' = predictFireBehavior(fuelModels, call)
    /\ pc' = "done"
    /\ UNCHANGED <<call, Locals, Shared>>

(* The functions are exported (lines 296-317): a client that has the       *)
(* result of one call makes another, up to MaxCalls in a row               *)
ReturnToCaller ==
    /\ pc = "done"
    /\ call.fn \in FireFns
    /\ callsMade < MaxCalls
    /\ pc' = "idle"
    /\ call' = NoCall
    /\ ret' = NoRet
    /\ UNCHANGED <<Locals, Shared>>

Invoke ==
    /\ pc = "idle"
    /\ call' \in FireCalls
    /\ pc' = "start"
    /\ callsMade' = callsMade + 1
    /\ UNCHANGED <<ret, Locals, fuelModels>>

----------------------------------------------------------------------------
Next ==
    \/ ComputeEMCCall
    \/ LibComputeEMCCall
    \/ StepMoistureCall
    \/ LibStepMoistureCall
    \/ RunModelEnter
    \/ RunModelStep
    \/ RunModelReturn
    \/ DryingEnter
    \/ DryingStep
    \/ DryingReturn
    \/ RateOfSpreadCall
    \/ FlameLengthCall
    \/ FirelineIntensityCall
    \/ PredictFireBehaviorCall
    \/ ReturnToCaller
    \/ Invoke

Spec == Init /\ [][Next]_vars


----------------------------------------------------------------------------
(* Properties *)

Done(fn) == pc = "done" /\ call.fn = fn

NumericEMCArgs == IsNumber(call.tempF) /\ IsNumber(call.rh)

NumericStepArgs ==
    /\ IsNumber(call.moisture)
    /\ IsNumber(call.emc)
    /\ IsNumber(call.hours)
    /\ IsNumber(call.timeLag)

(* C1: for every numeric tempF and every rh in [0,100], computeEMC returns *)
(* a value in the closed interval [0.1, 40], whichever of the three        *)
(* humidity branches is selected.                                          *)
C1_EMCWithinBounds ==
    (Done("computeEMC") /\ NumericEMCArgs /\ call.rh.v >= 0 /\ call.rh.v <= 100)
        => /\ ret.st = "return"
           /\ IsNumber(ret.val) /\ ~ret.val.nan
           /\ MU \div 10 <= ret.val.v
           /\ ret.val.v <= 40 * MU

(* a call whose branch value lies above 40 and is returned as 40 *)
C1_Witness ==
    /\ Done("computeEMC") /\ NumericEMCArgs
    /\ call.rh.v > 50 /\ call.rh.v <= 100
    /\ EMCBranch(call.tempF.v, call.rh.v) > 40 * MU
    /\ ret.st = "return" /\ ret.val.v = 40 * MU

(* C2: computeEMC called with numeric arguments and rh < 0 or rh > 100     *)
(* fails with the exact message "Relative humidity must be between 0 and   *)
(* 100" and returns no value; stated of both functions of that name.       *)
C2_ExactRangeMessage ==
    (/\ pc = "done"
     /\ call.fn \in {"computeEMC", "FuelMoistureCalc.computeEMC"}
     /\ NumericEMCArgs
     /\ (call.rh.v < 0 \/ call.rh.v > 100))
        => /\ ret.st = "throw"
           /\ ret.msg = "Relative humidity must be between 0 and 100"
           /\ ret.val = Undefined

(* what holds of C2: the computeEMC of fuel-moisture-integration.js throws  *)
(* exactly the pinned message                                              *)
C2_IntegrationMessage ==
    (Done("computeEMC") /\ NumericEMCArgs /\ (call.rh.v < 0 \/ call.rh.v > 100))
        => ret = Throw("Relative humidity must be between 0 and 100")

(* C3: stepMoisture fails with an error, instead of returning a moisture   *)
(* value, whenever timeLagHours <= 0; stated of both functions of that     *)
(* name.                                                                   *)
C3_ThrowsOnNonPositiveTimeLag ==
    (/\ pc = "done"
     /\ call.fn \in {"stepMoisture", "FuelMoistureCalc.stepMoisture"}
     /\ NumericStepArgs
     /\ call.timeLag.v <= 0)
        => ret.st = "throw"

(* what holds of C3: the stepMoisture of part_000 throws, the one of        *)
(* fuel-moisture-integration.js returns on every numeric input             *)
C3_LibraryThrows ==
    /\ (Done("FuelMoistureCalc.stepMoisture") /\ NumericStepArgs /\ call.timeLag.v <= 0)
          => ret = Throw("Timelag must be greater than 0")
    /\ (Done("stepMoisture") /\ NumericStepArgs) => ret.st = "return"

(* C4: for all numeric inputs the value stepMoisture returns is never      *)
(* negative: it is the relaxed value emc + (current - emc) * exp(-hours /  *)
(* timeLag) where that is at least 0, and 0 where it is below (NaN stays   *)
(* NaN).                                                                   *)
C4_NeverNegative ==
    (Done("stepMoisture") /\ NumericStepArgs)
        => LET relaxed == Relax(call.moisture, call.emc, call.hours.v, call.timeLag.v)
           IN  /\ ret.st = "return"
               /\ IsNumber(ret.val)
               /\ ret.val.nan = relaxed.nan
               /\ ~ret.val.nan =>
                    /\ ret.val.v >= 0
                    /\ relaxed.v >= 0 => ret.val.v = relaxed.v
                    /\ relaxed.v < 0 => ret.val.v = 0

(* a call whose relaxed value is negative and which returns 0 *)
C4_Witness ==
    /\ Done("stepMoisture") /\ NumericStepArgs
    /\ LET relaxed == Relax(call.moisture, call.emc, call.hours.v, call.timeLag.v)
       IN  ~relaxed.nan /\ relaxed.v < 0
    /\ ret.st = "return" /\ ret.val = Num(0)

(* C5: for every moisture M >= 0 and any elapsed time t and time lag tau,  *)
(* stepMoisture(M, M, t, tau) returns exactly M.                           *)
C5_IdempotentAtEquilibrium ==
    (/\ Done("stepMoisture") /\ NumericStepArgs
     /\ call.moisture = call.emc
     /\ call.moisture.v >= 0)
        => ret = Return(call.moisture)


(* what holds of C5: the result is exactly M unless hours and timeLag are  *)
(* both 0                                                                  *)
C5_IdempotentUnlessZeroOverZero ==
    (/\ Done("stepMoisture") /\ NumericStepArgs
     /\ call.moisture = call.emc
     /\ call.moisture.v >= 0)
        => IF call.timeLag.v = 0 /\ call.hours.v = 0
             THEN ret = Return(NaN)
             ELSE ret = Return(call.moisture)

(* the distance from the call's emc of what stepMoisture returns after     *)
(* hours with timeLag, the call's other arguments kept                     *)
GapAfter(hours, timeLag) ==
    Abs(stepMoisture(call.moisture, call.emc, hours, timeLag).val.v - call.emc.v)

(* the calls C6 is about *)
C6_Case ==
    /\ Done("stepMoisture") /\ NumericStepArgs
    /\ call.moisture # call.emc
    /\ call.hours.v > 0
    /\ call.timeLag.v > 0

Resolved(hours, timeLag) ==
    /\ 100 * hours.v >= HU * timeLag.v
    /\ hours.v <= 10 * HU * timeLag.v

ValidStep(step) ==
    /\ IsNumber(step.tempF) /\ IsNumber(step.rh) /\ IsNumber(step.hours)
    /\ step.rh.v >= 0 /\ step.rh.v <= 100

MistypedStep(step) ==
    ~IsNumber(step.tempF) \/ ~IsNumber(step.rh) \/ ~IsNumber(step.hours)

RECURSIVE SumHours(_, _)
SumHours(steps, i) == IF i = 0 THEN 0 ELSE SumHours(steps, i - 1) + steps[i].hours.v

(* C7: for every valid list of n weather steps runModel returns exactly    *)
(* n+1 entries in input order: entry 0 is {hours: 0, moisture:             *)
(* initialMoisture, emc: null}, and entry i has hours equal to the sum of  *)
(* the hours of steps 1..i.                                                *)
C7_RunModelEntries ==
    (/\ Done("runModel") /\ call.isArray
     /\ \A i \in 1..Len(call.steps) : ValidStep(call.steps[i]))
        => /\ ret.st = "return"
           /\ Len(ret.list) = Len(call.steps) + 1
           /\ ret.list[1].hours = 0
           /\ ret.list[1].moisture = call.moisture
           /\ ret.list[1].emc = Null
           /\ \A i \in 1..Len(call.steps) :
                 /\ ret.list[i + 1].hours = SumHours(call.steps, i)
                 /\ ret.list[i + 1].tempF = call.steps[i].tempF
                 /\ ret.list[i + 1].rh = call.steps[i].rh

(* two steps of 6 hours and of 1 hour have returned entries at 0, 6 and 7  *)
C7_Witness ==
    /\ Done("runModel") /\ ret.st = "return"
    /\ Len(call.steps) = 2
    /\ call.steps[1].hours = Num(6 * HU) /\ call.steps[2].hours = Num(HU)
    /\ Len(ret.list) = 3
    /\ ret.list[3].hours = 7 * HU

(* C8: runModel fails with an error if weatherSteps is not an array or if  *)
(* any step, at any position, has a non-numeric or missing tempF, rh or    *)
(* hours; the failure is terminal and no partial result sequence is        *)
(* returned.                                                               *)
C8_RunModelFailsWhole ==
    (/\ Done("runModel")
     /\ \/ ~call.isArray
        \/ \E i \in 1..Len(call.steps) : MistypedStep(call.steps[i]))
        => /\ ret.st = "throw"
           /\ ret.list = <<>>
           /\ ret.val = Undefined

(* the second step is mistyped: the call has thrown although the entry of  *)
(* the first step had been computed                                        *)
C8_Witness ==
    /\ Done("runModel") /\ ret.st = "throw" /\ ret.list = <<>>
    /\ Len(call.steps) = 2
    /\ ValidStep(call.steps[1]) /\ MistypedStep(call.steps[2])
    /\ Len(results) = 2

(* C9: for every initialMoisture, duration and time lag the first sample   *)
(* of calculateDryingPattern is {hours: 0, moisture: initialMoisture},     *)
(* the moisture exactly as supplied (not rounded).                         *)
C9_FirstSample ==
    (Done("calculateDryingPattern") /\ ret.st = "return")
        => /\ Len(ret.list) >= 1
           /\ ret.list[1] = [hours |-> 0, moisture |-> call.moisture]

(* a pattern from 18.25 percent with further samples starts at 18.25 *)
C9_Witness ==
    /\ Done("calculateDryingPattern") /\ ret.st = "return"
    /\ call.moisture = Num(1825000)
    /\ Len(ret.list) > 1
    /\ ret.list[1].moisture = Num(1825000)

(* the moisture of sample i as reported, and with the first sample brought *)
(* to the one decimal of the others                                        *)
Reported(i) == ret.list[i].moisture.v
Shown(i) == Round1(ret.list[i].moisture.v, MU)

C10_Case ==
    /\ Done("calculateDryingPattern") /\ ret.st = "return"
    /\ call.timeLag.v > 0

(* C10 as claimed: each sample is strictly lower than the previous one if  *)
(* initialMoisture > emc, strictly higher if initialMoisture < emc, and    *)
(* all samples are equal if initialMoisture = emc (for timeLag > 0).       *)
C10_StrictlyMonotone ==
    C10_Case =>
        \A i \in 1..(Len(ret.list) - 1) :
            /\ call.moisture.v > emc.v => Reported(i + 1) < Reported(i)
            /\ call.moisture.v < emc.v => Reported(i + 1) > Reported(i)
            /\ call.moisture.v = emc.v => Reported(i + 1) = Reported(i)

(* C10 as amended: at the one decimal the samples are reported in (the     *)
(* first sample rounded like the others) they never move away from EMC:    *)
(* each is at most the previous one and at least the rounded EMC if        *)
(* initialMoisture > emc, at least the previous one and at most the        *)
(* rounded EMC if initialMoisture < emc, and all are equal if              *)
(* initialMoisture = emc (for timeLag > 0).                                *)
C10_MonotoneAsReported ==
    C10_Case =>
        \A i \in 1..(Len(ret.list) - 1) :
            /\ call.moisture.v > emc.v =>
                  (Shown(i + 1) <= Shown(i) /\ Shown(i + 1) >= Round1(emc.v, MU))
            /\ call.moisture.v < emc.v =>
                  (Shown(i + 1) >= Shown(i) /\ Shown(i + 1) <= Round1(emc.v, MU))
            /\ call.moisture.v = emc.v => Shown(i + 1) = Shown(i)

(* a pattern drying from 6 percent over 4 hours: it falls, then two        *)
(* successive samples are equal                                            *)
C10_Witness ==
    /\ C10_Case
    /\ call.moisture.v = 6 * MU /\ call.moisture.v > emc.v
    /\ Len(ret.list) = 5
    /\ Reported(2) < Reported(1)
    /\ Reported(5) = Reported(4)

(* the elapsed time at which sample i was computed: i - 1 sub-intervals of *)
(* Math.max(1, duration / 24) hours                                        *)
ElapsedAt(i) == (i - 1) * Max(HU, call.hours.v \div 24)

C11_Case ==
    /\ Done("calculateDryingPattern") /\ ret.st = "return"
    /\ call.hours.v >= 0

(* C11 as claimed: for every durationHours >= 0 calculateDryingPattern     *)
(* returns at most 24 samples after the initial one (at most 25 in total), *)
(* none of them at an hours value beyond durationHours.                    *)
C11_WithinDuration ==
    C11_Case =>
        /\ Len(ret.list) <= 25
        /\ \A i \in 2..Len(ret.list) : ret.list[i].hours <= call.hours.v

(* C11 as amended: at most 24 samples after the initial one, sample i      *)
(* computed i - 1 equal sub-intervals of max(1, durationHours / 24) hours  *)
(* in, never beyond durationHours; its hours value is that time rounded to *)
(* one decimal, so it is never beyond durationHours rounded to one         *)
(* decimal.                                                                *)
C11_WithinRoundedDuration ==
    C11_Case =>
        /\ Len(ret.list) <= 25
        /\ \A i \in 2..Len(ret.list) :
              /\ ElapsedAt(i) <= call.hours.v
              /\ ret.list[i].hours = Round1(ElapsedAt(i), HU)
              /\ ret.list[i].hours <= Round1(call.hours.v, HU)

(* a pattern over 25.875 hours: 24 samples after the first, the last one   *)
(* computed at 25.875 hours and reported at 25.9                           *)
C11_Witness ==
    /\ C11_Case
    /\ call.hours.v = 25 * HU + 7 * (HU \div 8)
    /\ Len(ret.list) = 25
    /\ ElapsedAt(25) = call.hours.v
    /\ ret.list[25].hours = 25 * HU + 9 * (HU \div 10)

(* the fuel model key of a call of src/fire-behavior.js, and its entry *)
FuelModelOf(c) == Param(c, "fuelModel", "2")
MoistureExtOf(c) == FUEL_MODELS[FuelModelOf(c)].moistureExt

C12_Case ==
    /\ Done("calculateRateOfSpread")
    /\ FuelModelOf(call) \in DOMAIN FUEL_MODELS

(* C12: for every fuel model in the table and every wind speed and slope,  *)
(* calculateRateOfSpread returns canSpread = false with rate of spread 0   *)
(* whenever fuelMoisture >= the model's moisture of extinction, and        *)
(* canSpread = true whenever fuelMoisture is below it.                     *)
C12_SpreadsBelowExtinction ==
    C12_Case =>
        /\ ret.st = "return"
        /\ call.fuelMoisture.v >= MoistureExtOf(call).v =>
              /\ ret.val.canSpread = FALSE
              /\ ret.val.ros = DFZero
              /\ ret.val.rosMetric = DFZero
        /\ call.fuelMoisture.v < MoistureExtOf(call).v =>
              ret.val.canSpread = TRUE

(* fuel model 8 exactly at its moisture of extinction, 30 percent, in wind *)
C12_Witness ==
    /\ C12_Case
    /\ FuelModelOf(call) = "8"
    /\ call.fuelMoisture.v = MoistureExtOf(call).v
    /\ call.windSpeed > 0
    /\ ret.val.canSpread = FALSE

PredictDone == Done("predictFireBehavior")
KnownModel == FuelModelOf(call) \in DOMAIN FUEL_MODELS
TempOf(c) == Param(c, "temp", Num(70))
RhOf(c) == Param(c, "rh", Num(30))
UseEMCOf(c) == Param(c, "useEMC", FALSE)
FuelMoistureOf(c) == Param(c, "fuelMoisture", Num(10 * MU))

(* C13 as claimed: predictFireBehavior called with a fuel model identifier *)
(* that is not in the fuel-model table returns a structured error result   *)
(* ({error: ...}) and does not throw, whatever the other parameters are.   *)
C13_ErrorOnUnknownModel ==
    (PredictDone /\ ~KnownModel)
        => (ret.st = "return" /\ DOMAIN ret.val = {"error"})

(* What holds instead: the error result is returned for every identifier   *)
(* that is neither in the table nor a property name of Object.prototype.   *)
C13_ErrorUnlessInherited ==
    (PredictDone /\ ~KnownModel /\ FuelModelOf(call) \notin ObjectPrototype)
        => (ret.st = "return" /\ ret.val = [error |-> "Invalid fuel model"])

C14_Case ==
    /\ PredictDone /\ KnownModel
    /\ UseEMCOf(call)
    /\ IsNumber(TempOf(call)) /\ IsNumber(RhOf(call))
    /\ RhOf(call).v >= 0 /\ RhOf(call).v <= 100

(* the result was derived from the moisture m: the spread decision, and    *)
(* the moisture echoed by a spreading result                               *)
DerivedFrom(m) ==
    /\ ret.st = "return"
    /\ ret.val.canSpread = (m.v < MoistureExtOf(call).v)
    /\ ret.val.canSpread => ret.val.conditions.fuelMoisture = m

(* C14 as claimed: with a known fuel model, useEMC true, and temp and rh   *)
(* numbers with rh in [0,100], the effective fuel moisture used for the    *)
(* spread decision and echoed in conditions.fuelMoisture is                *)
(* computeEMC(temp, rh), not the supplied or default fuelMoisture.         *)
C14_EMCIsEffective ==
    C14_Case => DerivedFrom(computeEMC(TempOf(call), RhOf(call)).val)

(* What holds instead: it is so when temp and rh are both non-zero. *)
C14_EMCIsEffectiveWhenTruthy ==
    (C14_Case /\ TempOf(call).v # 0 /\ RhOf(call).v # 0)
        => DerivedFrom(computeEMC(TempOf(call), RhOf(call)).val)

C15_Case == PredictDone /\ KnownModel /\ ~UseEMCOf(call)

(* C15 as claimed: with a known fuel model and useEMC false, the supplied  *)
(* fuelMoisture is the effective moisture and the returned object has no   *)
(* emc property, on both the spreading and the non-spreading outcome.      *)
C15_ManualHasNoEmc ==
    C15_Case =>
        /\ DerivedFrom(FuelMoistureOf(call))
        /\ "emc" \notin DOMAIN ret.val

(* What holds instead: the supplied moisture is effective on both          *)
(* outcomes; the spreading result has no emc property, the non-spreading   *)
(* one has emc: null.                                                      *)
C15_ManualEmcAbsentOrNull ==
    C15_Case =>
        /\ DerivedFrom(FuelMoistureOf(call))
        /\ ret.val.canSpread => "emc" \notin DOMAIN ret.val
        /\ ~ret.val.canSpread => ret.val.emc = Null

(* the same call in manual mode, with fuelMoisture the computed EMC *)
ManualCall(c) ==
    [c EXCEPT !.given = c.given \cup {"useEMC", "fuelMoisture"},
              !.useEMC = FALSE,
              !.fuelMoisture = computeEMC(TempOf(c), RhOf(c)).val]

(* two results have the same canSpread and, if spreading, rates of spread  *)
(* within 0.1 chains/hour                                                  *)
Agree(a, b) ==
    /\ a.st = "return" /\ b.st = "return"
    /\ a.val.canSpread = b.val.canSpread
    /\ a.val.canSpread =>
          LtDF(AbsDiffDF(a.val.rateOfSpread.chainsPerHour,
                         b.val.rateOfSpread.chainsPerHour), Dec(1, 1))

(* C16 as claimed: for every known fuel model, wind speed, slope and every *)
(* numeric temp and rh in [0,100], predictFireBehavior with useEMC false   *)
(* and fuelMoisture set to computeEMC(temp, rh) returns the same canSpread *)
(* and rate of spread (within 0.1 chains/hour) as the call with useEMC     *)
(* true.                                                                   *)
C16_PathsAgree ==
    C14_Case => Agree(ret, predictFireBehavior(FUEL_MODELS, ManualCall(call)))

(* What holds instead: the two paths agree when temp and rh are non-zero. *)
C16_PathsAgreeWhenTruthy ==
    (C14_Case /\ TempOf(call).v # 0 /\ RhOf(call).v # 0)
        => Agree(ret, predictFireBehavior(FUEL_MODELS, ManualCall(call)))

(* the moisture predictFireBehavior passes to calculateRateOfSpread        *)
(* (lines 230-243)                                                         *)
EffectiveMoisture ==
    IF UseEMCOf(call) /\ Truthy(TempOf(call)) /\ Truthy(RhOf(call))
      THEN computeEMC(TempOf(call), RhOf(call)).val
      ELSE FuelMoistureOf(call)

C17_Case ==
    /\ PredictDone /\ KnownModel
    /\ ret.st = "return"
    /\ EffectiveMoisture.v >= MoistureExtOf(call).v

(* C17: when the effective fuel moisture is at or above the fuel model's   *)
(* moisture of extinction, predictFireBehavior returns canSpread = false   *)
(* with a message and no rateOfSpread, flameLength or firelineIntensity    *)
(* field.                                                                  *)
C17_ShortCircuit ==
    C17_Case =>
        /\ ret.val.canSpread = FALSE
        /\ ret.val.message = Message
        /\ DOMAIN ret.val \cap {"rateOfSpread", "flameLength", "firelineIntensity"} = {}

(* an EMC of 13.56 percent (70 F, 80 percent humidity) against the 12      *)
(* percent of fuel model 1                                                 *)
C17_Witness ==
    /\ C17_Case
    /\ UseEMCOf(call)
    /\ FuelModelOf(call) = "1"
    /\ EffectiveMoisture = Num(1356000)
    /\ ret.val.canSpread = FALSE

(* C18 as claimed: every numeric field reported by predictFireBehavior is  *)
(* rounded to its reported precision: the three rates of spread to 2       *)
(* decimals, the flame lengths to 1 decimal, the fireline intensity to an  *)
(* integer, and emc to 1 decimal in every result that carries a numeric    *)
(* emc, spreading or not.                                                  *)
C18_ReportedPrecision ==
    (PredictDone /\ KnownModel /\ ret.st = "return") =>
        /\ ret.val.canSpread =>
              /\ HasDecimals(ret.val.rateOfSpread.chainsPerHour, 2)
              /\ HasDecimals(ret.val.rateOfSpread.metersPerMin, 2)
              /\ HasDecimals(ret.val.rateOfSpread.feetPerMin, 2)
              /\ HasDecimals(ret.val.flameLength.feet, 1)
              /\ HasDecimals(ret.val.flameLength.meters, 1)
              /\ HasDecimals(ret.val.firelineIntensity, 0)
        /\ ("emc" \in DOMAIN ret.val /\ IsNumber(ret.val.emc)) =>
              ret.val.emc.v = Round1(ret.val.emc.v, MU)

(* What holds instead: the fields of a spreading result are rounded, its   *)
(* emc included.                                                           *)
C18_SpreadingPrecision ==
    (PredictDone /\ KnownModel /\ ret.st = "return" /\ ret.val.canSpread) =>
        /\ HasDecimals(ret.val.rateOfSpread.chainsPerHour, 2)
        /\ HasDecimals(ret.val.rateOfSpread.metersPerMin, 2)
        /\ HasDecimals(ret.val.rateOfSpread.feetPerMin, 2)
        /\ HasDecimals(ret.val.flameLength.feet, 1)
        /\ HasDecimals(ret.val.flameLength.meters, 1)
        /\ HasDecimals(ret.val.firelineIntensity, 0)
        /\ "emc" \in DOMAIN ret.val =>
              ret.val.emc.v = Round1(ret.val.emc.v, MU)

(* the outcome of a call of src/fire-behavior.js on the table as written   *)
(* in the source                                                           *)
FireResult(c) ==
    CASE c.fn = "calculateRateOfSpread" ->
             calculateRateOfSpread(FUEL_MODELS, c.windSpeed, c.fuelMoisture,
                                   c.slope, FuelModelOf(c))
      [] c.fn = "calculateFlameLength" ->
             Return(calculateFlameLength(c.intensity))
      [] c.fn = "calculateFirelineIntensity" ->
             Return(calculateFirelineIntensity(
                 c.ros, c.fuelLoad, Param(c, "heatContent", FromInt(8000))))
      [] c.fn = "predictFireBehavior" ->
             predictFireBehavior(FUEL_MODELS, c)

(* C19: after any sequence of calls of calculateRateOfSpread,              *)
(* calculateFirelineIntensity, calculateFlameLength and                    *)
(* predictFireBehavior (failing ones included) every entry of FUEL_MODELS  *)
(* is unchanged, so the result of a call depends on its arguments only,    *)
(* not on the calls made before it.                                        *)
C19_TableReadOnly ==
    /\ fuelModels = FUEL_MODELS
    /\ (pc = "done" /\ call.fn \in FireFns) => ret = FireResult(call)

(* a later call of a sequence has returned a spreading prediction *)
C19_Witness ==
    /\ PredictDone /\ KnownModel
    /\ callsMade > 1
    /\ ret.st = "return"
    /\ ret.val.canSpread
    /\ fuelModels = FUEL_MODELS

C20_Case ==
    /\ Done("computeEMC") /\ NumericEMCArgs
    /\ call.rh.v >= 0 /\ call.rh.v <= 100

(* C20 as claimed: for all temperatures t1 >= t2 and humidities            *)
(* rh1 <= rh2 in [0,100], computeEMC(t1, rh1) <= computeEMC(t2, rh2),      *)
(* including across the humidity-band boundaries at rh = 10 and rh = 50.   *)
C20_Monotone ==
    C20_Case =>
        \A t2 \in TempsF, rh2 \in Humidities :
            (call.tempF.v >= t2.v /\ call.rh.v <= rh2.v /\ rh2.v <= 100)
                => ret.val.v <= computeEMC(t2, rh2).val.v

(* the humidity band of computeEMC (lines 26, 30, 34) *)
Band(rh) == IF rh <= 10 THEN 1 ELSE IF rh <= 50 THEN 2 ELSE 3

(* What holds instead: the order holds within a humidity band and from the *)
(* band up to 10 percent to the band up to 50 percent.                     *)
C20_MonotoneBelow50 ==
    C20_Case =>
        \A t2 \in TempsF, rh2 \in Humidities :
            (/\ call.tempF.v >= t2.v /\ call.rh.v <= rh2.v /\ rh2.v <= 100
             /\ (Band(call.rh.v) = Band(rh2.v) \/ Band(rh2.v) <= 2))
                => ret.val.v <= computeEMC(t2, rh2).val.v


(* a < b for two numbers in units of 1/MU *)
MoistureLt(a, b) ==
    \/ a.v < b.v
    \/ /\ a.v = b.v
       /\ \E i \in 1..4 :
             /\ FracOf(a)[i] < FracOf(b)[i]
             /\ \A j \in 1..(i - 1) : FracOf(a)[j] = FracOf(b)[j]

(* the rate of spread, in chains per hour, of the call's fuel model, wind  *)
(* speed and slope at the moisture m                                       *)
RosAt(m) ==
    calculateRateOfSpread(FUEL_MODELS, call.windSpeed, m, call.slope,
                          FuelModelOf(call)).val.ros

C21_Case ==
    /\ C12_Case
    /\ call.fuelMoisture.v >= 0
    /\ call.fuelMoisture.v < MoistureExtOf(call).v

(* C21 as claimed: for a fixed fuel model, wind speed and slope, and any   *)
(* two fuel moistures 0 <= m1 < m2 below the model's moisture of           *)
(* extinction, the rate of spread computed for m1 is strictly greater than *)
(* the one computed for m2.                                                *)
C21_DrierSpreadsFaster ==
    C21_Case =>
        \A m2 \in MoisturesOf(FuelModelOf(call)) :
            (MoistureLt(call.fuelMoisture, m2) /\ m2.v < MoistureExtOf(call).v)
                => LtDF(RosAt(m2), ret.val.ros)

(* C21 as amended: the rate of spread computed for m1 is strictly greater  *)
(* than the one computed for m2 whenever 0 <= m1 < m2 are below the        *)
(* moisture of extinction and at least 0.01 percentage points apart;       *)
(* moistures closer than a double resolves in the damping coefficient give *)
(* the same rate.                                                          *)
C21_DrierSpreadsFasterWhenApart ==
    C21_Case =>
        \A m2 \in MoisturesOf(FuelModelOf(call)) :
            (/\ m2.v - call.fuelMoisture.v >= MU \div 100
             /\ m2.v < MoistureExtOf(call).v)
                => LtDF(RosAt(m2), ret.val.ros)

(* fuel model 2 at 8 percent: faster than at 8.01 percent, while 10^-20    *)
(* percent spreads exactly as fast as 0 percent                            *)
C21_Witness ==
    /\ C21_Case
    /\ FuelModelOf(call) = "2"
    /\ call.fuelMoisture = Num(8 * MU)
    /\ LtDF(RosAt(Num(8 * MU + MU \div 100)), ret.val.ros)
    /\ LtDF(ret.val.ros, RosAt(Tiny))
    /\ RosAt(Tiny) = RosAt(Num(0))

Positive(x) == LtDF(DFZero, x)

(* x is within half a unit of the d-th decimal of y *)
Near(x, y, d) == ~LtDF(Dec(5, d + 1), AbsDiffDF(x, y))

(* what predictFireBehavior computes before it rounds (lines 243, 255-262) *)
Computed ==
    LET fuel == FUEL_MODELS[FuelModelOf(call)]
        spread == calculateRateOfSpread(FUEL_MODELS, Param(call, "windSpeed", 0),
                                        EffectiveMoisture, Param(call, "slope", 0),
                                        FuelModelOf(call)).val
        intensity == calculateFirelineIntensity(spread.rosFtPerMin, fuel.load,
                                                fuel.heatContent)
    IN  [spread |-> spread, intensity |-> intensity,
         flame |-> calculateFlameLength(intensity)]

C22_Case ==
    /\ PredictDone /\ KnownModel
    /\ ret.st = "return"
    /\ ret.val.canSpread
    /\ EffectiveMoisture.v >= 0
    /\ Param(call, "windSpeed", 0) >= 0
    /\ Param(call, "slope", 0) >= 0 /\ Param(call, "slope", 0) < 90

(* C22 as claimed: whenever predictFireBehavior returns canSpread = true   *)
(* (known fuel model, effective moisture in [0, extinction), windSpeed >=  *)
(* 0, slope in [0, 90) degrees), the reported rate of spread, flame length *)
(* and fireline intensity are all strictly greater than 0.                 *)
C22_ReportedPositive ==
    C22_Case =>
        /\ Positive(ret.val.rateOfSpread.chainsPerHour)
        /\ Positive(ret.val.rateOfSpread.metersPerMin)
        /\ Positive(ret.val.rateOfSpread.feetPerMin)
        /\ Positive(ret.val.flameLength.feet)
        /\ Positive(ret.val.flameLength.meters)
        /\ Positive(ret.val.firelineIntensity)

(* C22 as amended: whenever predictFireBehavior returns canSpread = true   *)
(* the rate of spread, fireline intensity and flame length it computes are *)
(* all strictly greater than 0; each reported value is within half a unit  *)
(* of its last reported decimal of the computed one (two decimals for the  *)
(* rates, one for the flame lengths, none for the intensity), so it is     *)
(* strictly greater than 0 when the computed value is at least that half   *)
(* unit, and 0 below.                                                      *)
C22_ComputedPositive ==
    C22_Case =>
        LET c == Computed
            rounds(reported, x, d) ==
                /\ Positive(x)
                /\ Near(reported, x, d)
                /\ Positive(reported) = ~LtDF(x, Dec(5, d + 1))
        IN  /\ c.spread.canSpread
            /\ rounds(ret.val.rateOfSpread.chainsPerHour, c.spread.ros, 2)
            /\ rounds(ret.val.rateOfSpread.metersPerMin, c.spread.rosMetric, 2)
            /\ rounds(ret.val.rateOfSpread.feetPerMin, c.spread.rosFtPerMin, 2)
            /\ rounds(ret.val.flameLength.feet, c.flame.flameLengthFt, 1)
            /\ rounds(ret.val.flameLength.meters, c.flame.flameLengthM, 1)
            /\ rounds(ret.val.firelineIntensity, c.intensity, 0)

(* fuel model 8 at 10^-10 percent below its moisture of extinction, no     *)
(* wind, no slope: it spreads at a rate that is reported as 0, with a      *)
(* flame length reported as 0.1 feet and 0 meters                          *)
C22_Witness ==
    /\ C22_Case
    /\ FuelModelOf(call) = "8"
    /\ EffectiveMoisture = JustBelow(30 * MU)
    /\ Positive(Computed.spread.ros)
    /\ ret.val.rateOfSpread.chainsPerHour = DFZero
    /\ ret.val.flameLength.feet = Dec(1, 1)
    /\ ret.val.flameLength.meters = DFZero

(* the EMC of weather step i of the call, and the moisture after steps     *)
(* 1..i: stepMoisture applied to the unrounded moisture of the step before *)
StepEMC(i) == computeEMC(call.steps[i].tempF, call.steps[i].rh).val

RECURSIVE Chain(_)
Chain(i) ==
    IF i = 0 THEN call.moisture
    ELSE stepMoisture(Chain(i - 1), StepEMC(i), call.steps[i].hours,
                      call.timeLag).val

C23_Case == Done("runModel") /\ call.isArray /\ ret.st = "return"

(* C23: in runModel the rounding to one decimal place is for reporting     *)
(* only: the moisture fed into step i+1 is the unrounded result of step i, *)
(* so each reported moisture equals round1 of the chain of stepMoisture    *)
(* applications on unrounded values, with EMC recomputed from each step's  *)
(* own tempF and rh.                                                       *)
C23_RoundsForReportingOnly ==
    C23_Case =>
        \A i \in 1..Len(call.steps) :
            /\ ret.list[i + 1].moisture = RoundNum1(Chain(i))
            /\ ret.list[i + 1].emc = RoundNum1(StepEMC(i))

(* two steps in different weather: the second reported moisture is not the *)
(* one a step from the first reported moisture would give                  *)
C23_Witness ==
    /\ C23_Case
    /\ Len(call.steps) = 2
    /\ call.timeLag.v > 0
    /\ StepEMC(1) # StepEMC(2)
    /\ Chain(1) # RoundNum1(Chain(1))
    /\ ret.list[2].moisture = RoundNum1(Chain(1))
    /\ ret.list[3].moisture = RoundNum1(Chain(2))
    /\ ret.list[3].moisture #
          RoundNum1(stepMoisture(ret.list[2].moisture, StepEMC(2),
                                 call.steps[2].hours, call.timeLag).val)

----------------------------------------------------------------------------
(* C24 *)

(* the rounding error of the arithmetic: the moisture is carried in units  *)
(* of 1/MU percent and Math.exp(-k) in units of 1/EU, and two ways of      *)
(* computing one moisture agree to within StepError                        *)
StepError == MU \div (2 * 10^4)

(* |x - y| <= d for two moistures *)
Within(x, y, d) == ~x.nan /\ ~y.nan /\ Abs(x.v - y.v) <= d

C24_StepCase ==
    /\ Done("stepMoisture")
    /\ ret.st = "return"
    /\ call.moisture.v >= 0
    /\ call.emc.v >= 0
    /\ call.timeLag.v > 0
    /\ call.hours.v >= 0

(* stepMoisture(ret, emc, t2, tau) after the call that returned ret *)
ThenStep(t2) == stepMoisture(ret.val, call.emc, t2, call.timeLag).val

(* stepMoisture(current, emc, t1 + t2, tau) *)
OneStep(t2) ==
    stepMoisture(call.moisture, call.emc, Num(call.hours.v + t2.v),
                 call.timeLag).val

LaterHours == {t \in ElapsedHours : t.v >= 0}

C24_DryingCase ==
    /\ Done("calculateDryingPattern")
    /\ ret.st = "return"
    /\ call.moisture.v >= 0
    /\ call.timeLag.v > 0

(* the time covered by the samples: hour has run one interval past the     *)
(* last sample's time                                                      *)
TimeCovered == hour - IntervalHours(call.hours.v)

(* a single stepMoisture over the time covered by the samples *)
SingleStep == stepMoisture(call.moisture, emc, Num(TimeCovered), call.timeLag).val

----------------------------------------------------------------------------
(* C25 *)

C25_Case ==
    /\ Done("calculateDryingPattern")
    /\ ret.st = "return"
    /\ call.hours.v >= HU

LastSample == ret.list[Len(ret.list)]

(* C25: the finalMoisture of calculateDryingPattern describes the state at *)
(* the end of the requested duration: for every durationHours >= 1 the     *)
(* last sample's hours equals durationHours, and finalMoisture is that     *)
(* last sample's moisture.                                                 *)
C25_EndsAtDuration ==
    C25_Case =>
        /\ LastSample.hours = call.hours.v
        /\ ret.val = LastSample.moisture

(* what the loop of lines 127-133 gives instead: the last sample is taken  *)
(* at the last whole number of intervals within the duration, less than    *)
(* one interval before its end, and finalMoisture is the moisture there    *)
C25_EndsWithinAnInterval ==
    C25_Case =>
        /\ TimeCovered <= call.hours.v
        /\ call.hours.v - TimeCovered < IntervalHours(call.hours.v)
        /\ TimeCovered % IntervalHours(call.hours.v) = 0
        /\ LastSample.hours = Round1(TimeCovered, HU)
        /\ ret.val = LastSample.moisture

(* a pattern over 12.5 hours whose last sample is the one at 12 hours *)
C25_EndsEarly ==
    /\ C25_Case
    /\ call.hours.v = 25 * (HU \div 2)
    /\ call.timeLag.v = 10
    /\ Len(ret.list) = 13
    /\ LastSample.hours = 12 * HU
    /\ ret.val = LastSample.moisture
    /\ ret.val # RoundNum1(stepMoisture(call.moisture, emc, call.hours,
                                       call.timeLag).val)

====
